---- MODULE Spec2Model ----
(***************************************************************************)
(* A model of InputToggle (src/input-toggle.js): a jQuery component that   *)
(* toggles classes and attributes of "toggled" elements from the values of *)
(* the form inputs of a given name.                                        *)
(*                                                                         *)
(* Strings are sequences of one-character strings, so that split('='),     *)
(* indexOf('data-'), substring(5), the whitespace split of a class list    *)
(* and jQuery's conversion of data- attributes are computed character by   *)
(* character.  A JavaScript value is a record [t, s, a]: its type tag, its *)
(* text (strings, numbers, booleans) and its elements (arrays).            *)
(*                                                                         *)
(* Scope of the model: the toggled elements are not themselves inputs of a *)
(* watched name, no directive names a marker attribute or "class", and     *)
(* JSON criteria are arrays of double-quoted strings or integer literals.  *)
(***************************************************************************)
EXTENDS Integers, Sequences, FiniteSets, TLC

VARIABLES attributes, inputs, targets, handlers, jq, last

vars == <<attributes, inputs, targets, handlers, jq, last>>

(* ------------------------------ bounds --------------------------------- *)

\* The longest value sequence handed to the functions called on their own.
MaxValues == 2

\* The number of earlier applications of update a page remembers.
MaxTrail == 2

(* ------------------------------ strings -------------------------------- *)

DataPrefix == <<"d", "a", "t", "a", "-">>

s_empty == << >>
s_0 == <<"0">>
s_1 == <<"1">>
s_2 == <<"2">>
s_a == <<"a">>
s_n == <<"n">>
s_m == <<"m">>
s_x == <<"x">>
s_on == <<"o", "n">>
s_hi == <<"h", "i">>
s_off == <<"o", "f", "f">>
s_on_hi == <<"o", "n", " ", "h", "i">>
s_true == <<"t", "r", "u", "e">>
s_false == <<"f", "a", "l", "s", "e">>
s_null == <<"n", "u", "l", "l">>
s_arr12 == <<"[", "\"", "1", "\"", ",", "\"", "2", "\"", "]">>
s_arrnum == <<"[", "1", ",", "2", "]">>
s_badarr == <<"[", "\"", "1", "\"">>
s_emptyarr == <<"[", "]">>
s_disabled == <<"d", "i", "s", "a", "b", "l", "e", "d">>
s_checked == <<"c", "h", "e", "c", "k", "e", "d">>
s_checked_eq == <<"c", "h", "e", "c", "k", "e", "d", "=", "c", "h", "e", "c", "k", "e", "d">>
s_aria_hidden == <<"a", "r", "i", "a", "-", "h", "i", "d", "d", "e", "n">>
s_aria_false == <<"a", "r", "i", "a", "-", "h", "i", "d", "d", "e", "n", "=", "f", "a", "l", "s", "e">>
s_aria_true == <<"a", "r", "i", "a", "-", "h", "i", "d", "d", "e", "n", "=", "t", "r", "u", "e">>
s_datax == <<"d", "a", "t", "a", "-", "x">>
s_datax_eq == <<"d", "a", "t", "a", "-", "x", "=", "1", "=", "2">>
s_hidden == <<"h", "i", "d", "d", "e", "n">>
s_hidden_eq == <<"h", "i", "d", "d", "e", "n", "=">>
s_title == <<"t", "i", "t", "l", "e">>
s_av == <<"a", "v">>
s_iv == <<"i", "v">>

Digits == {"0", "1", "2", "3", "4", "5", "6", "7", "8", "9"}

\* s.indexOf(p) === 0
StartsWith(s, p) ==
    /\ Len(s) >= Len(p)
    /\ SubSeq(s, 1, Len(p)) = p

\* s.substring(k)
Substring(s, k) == SubSeq(s, k + 1, Len(s))

\* The least index >= i at which c occurs in s, or 0.
RECURSIVE IndexFrom(_, _, _)
IndexFrom(s, c, i) ==
    IF i > Len(s) THEN 0
    ELSE IF s[i] = c THEN i
    ELSE IndexFrom(s, c, i + 1)

\* s.split(c): the pieces of s between the occurrences of c, empty ones kept.
RECURSIVE Split(_, _)
Split(s, c) ==
    LET k == IndexFrom(s, c, 1)
    IN  IF k = 0 THEN <<s>>
        ELSE <<SubSeq(s, 1, k - 1)>> \o Split(SubSeq(s, k + 1, Len(s)), c)

\* The non-empty pieces of s between blanks, as jQuery splits a class list.
ClassNames(s) == {p \in {Split(s, " ")[k] : k \in DOMAIN Split(s, " ")} : Len(p) > 0}

(* -------------------------- JavaScript values -------------------------- *)

Str(s) == [t |-> "str", s |-> s, a |-> << >>]
Num(s) == [t |-> "num", s |-> s, a |-> << >>]
Bool(b) == [t |-> "bool", s |-> IF b THEN s_true ELSE s_false, a |-> << >>]
Null == [t |-> "null", s |-> s_null, a |-> << >>]
Undefined == [t |-> "undefined", s |-> s_empty, a |-> << >>]
Arr(elems) == [t |-> "arr", s |-> s_empty, a |-> elems]

\* if (v): the truthiness of a value.
Truthy(v) ==
    CASE v.t = "str" -> Len(v.s) > 0
      [] v.t = "num" -> v.s # s_0
      [] v.t = "bool" -> v.s = s_true
      [] v.t = "arr" -> TRUE
      [] OTHER -> FALSE

\* v.toString() of a string, number or boolean.
JsToString(v) == v.s

\* +s + "" === s, for the integer literals: digits without a leading zero.
IsCanonicalInt(s) ==
    /\ Len(s) > 0
    /\ \A k \in DOMAIN s : s[k] \in Digits
    /\ (Len(s) > 1 => s[1] # "0")

\* JSON.parse of the elements of an array literal from position i on:
\* double-quoted strings and integer literals separated by commas.
RECURSIVE ParseElems(_, _, _)
ParseElems(s, i, acc) ==
    IF i > Len(s) THEN [ok |-> FALSE, a |-> << >>]
    ELSE IF s[i] = "\""
    THEN LET j == IndexFrom(s, "\"", i + 1)
         IN  IF j = 0 \/ j = Len(s) THEN [ok |-> FALSE, a |-> << >>]
             ELSE LET e == Str(SubSeq(s, i + 1, j - 1))
                  IN  IF s[j + 1] = "]"
                      THEN [ok |-> j + 1 = Len(s), a |-> Append(acc, e)]
                      ELSE IF s[j + 1] = ","
                      THEN ParseElems(s, j + 2, Append(acc, e))
                      ELSE [ok |-> FALSE, a |-> << >>]
    ELSE LET c == IndexFrom(s, ",", i)
             j == IF c = 0 THEN Len(s) ELSE c
             lit == SubSeq(s, i, j - 1)
         IN  IF ~IsCanonicalInt(lit) THEN [ok |-> FALSE, a |-> << >>]
             ELSE IF c = 0
             THEN [ok |-> s[Len(s)] = "]", a |-> Append(acc, Num(lit))]
             ELSE ParseElems(s, j + 1, Append(acc, Num(lit)))

\* JSON.parse of a text that starts with "[" and ends with "]".
ParseArray(s) ==
    IF Len(s) = 2 THEN [ok |-> TRUE, a |-> << >>]
    ELSE ParseElems(s, 2, << >>)

\* jQuery's conversion of the text of a data- attribute: true, false, null,
\* a number when the text is its own canonical form, JSON when the text is
\* bracketed and parses, and the text itself otherwise.
DataConv(s) ==
    IF s = s_true THEN Bool(TRUE)
    ELSE IF s = s_false THEN Bool(FALSE)
    ELSE IF s = s_null THEN Null
    ELSE IF IsCanonicalInt(s) THEN Num(s)
    ELSE IF Len(s) >= 2 /\ s[1] = "[" /\ s[Len(s)] = "]"
    THEN LET p == ParseArray(s)
         IN  IF p.ok THEN Arr(p.a) ELSE Str(s)
    ELSE Str(s)

(* --------------------------- DOM primitives ---------------------------- *)

\* $el.is('[name]')
Is(el, name) == name \in DOMAIN el.attrs

\* $el.attr(name)
Attr(el, name) == IF name \in DOMAIN el.attrs THEN Str(el.attrs[name]) ELSE Undefined

\* $el.data(key)
Data(el, key) ==
    IF (DataPrefix \o key) \in DOMAIN el.attrs
    THEN DataConv(el.attrs[DataPrefix \o key])
    ELSE Undefined

\* $el.attr(name, value)
SetAttr(el, name, value) ==
    [el EXCEPT !.attrs = [k \in (DOMAIN el.attrs) \cup {name} |->
                             IF k = name THEN value ELSE el.attrs[k]]]

\* $el.removeAttr(name)
RemoveAttr(el, name) ==
    [el EXCEPT !.attrs = [k \in (DOMAIN el.attrs) \ {name} |-> el.attrs[k]]]

\* $el.toggleClass(value): each class name is added when missing and
\* removed when present.
AddClass_toggle(el, value) ==
    [el EXCEPT !.classes = (@ \ ClassNames(value)) \cup (ClassNames(value) \ @)]

\* $el.addClass(value)
AddClass(el, value) == [el EXCEPT !.classes = @ \cup ClassNames(value)]

\* $el.removeClass() without a class name: every class goes.
RemoveClass_all(el, value) == [el EXCEPT !.classes = {}]

\* $el.removeClass(value)
RemoveClass(el, value) == [el EXCEPT !.classes = @ \ ClassNames(value)]

\* An attribute map from a set of <<name, value>> pairs.
AttrMap(pairs) == [k \in {p[1] : p \in pairs} |-> (CHOOSE p \in pairs : p[1] = k)[2]]

(* ------------------------- InputToggle.attributes ---------------------- *)

\* The marker names the component starts with.
DefaultAttributes ==
    [toggled           |-> DataPrefix \o <<"i", "n", "p", "u", "t", "-", "t", "o", "g", "g", "l", "e">>,
     activeValue       |-> DataPrefix \o <<"i", "n", "p", "u", "t", "-", "t", "o", "g", "g", "l", "e", "-", "a", "c", "t", "i", "v", "e", "-", "v", "a", "l", "u", "e">>,
     inactiveValue     |-> DataPrefix \o <<"i", "n", "p", "u", "t", "-", "t", "o", "g", "g", "l", "e", "-", "i", "n", "a", "c", "t", "i", "v", "e", "-", "v", "a", "l", "u", "e">>,
     activeClass       |-> DataPrefix \o <<"i", "n", "p", "u", "t", "-", "t", "o", "g", "g", "l", "e", "-", "a", "c", "t", "i", "v", "e", "-", "c", "l", "a", "s", "s">>,
     inactiveClass     |-> DataPrefix \o <<"i", "n", "p", "u", "t", "-", "t", "o", "g", "g", "l", "e", "-", "i", "n", "a", "c", "t", "i", "v", "e", "-", "c", "l", "a", "s", "s">>,
     activeAttribute   |-> DataPrefix \o <<"i", "n", "p", "u", "t", "-", "t", "o", "g", "g", "l", "e", "-", "a", "c", "t", "i", "v", "e", "-", "a", "t", "t", "r", "i", "b", "u", "t", "e">>,
     inactiveAttribute |-> DataPrefix \o <<"i", "n", "p", "u", "t", "-", "t", "o", "g", "g", "l", "e", "-", "i", "n", "a", "c", "t", "i", "v", "e", "-", "a", "t", "t", "r", "i", "b", "u", "t", "e">>]

Roles == DOMAIN DefaultAttributes

\* $.extend(_this.attributes, options.attributes)
Extend(attrs, over) == [r \in DOMAIN attrs |-> IF r \in DOMAIN over THEN over[r] ELSE attrs[r]]

(* --------------------------- the component ----------------------------- *)

\* A marker that is present and not empty.
NonEmptyMarker(el, name) == Is(el, name) /\ Len(Attr(el, name).s) > 0

\* validateToggle accepting a target only when exactly one of the two value
\* markers is non-empty.
validateToggle_exactlyOne(names, el) ==
    /\ NonEmptyMarker(el, names.activeValue) # NonEmptyMarker(el, names.inactiveValue)
    /\ \/ NonEmptyMarker(el, names.activeClass)
       \/ NonEmptyMarker(el, names.inactiveClass)
       \/ NonEmptyMarker(el, names.activeAttribute)
       \/ NonEmptyMarker(el, names.inactiveAttribute)

validateToggle(names, el) ==
    /\ \/ NonEmptyMarker(el, names.activeValue)
       \/ NonEmptyMarker(el, names.inactiveValue)
    /\ \/ NonEmptyMarker(el, names.activeClass)
       \/ NonEmptyMarker(el, names.inactiveClass)
       \/ NonEmptyMarker(el, names.activeAttribute)
       \/ NonEmptyMarker(el, names.inactiveAttribute)

\* getAttributeValue converting the text of every marker as $.data() does,
\* whatever the marker's name.
getAttributeValue_data(el, attributeName) ==
    IF Is(el, attributeName) THEN DataConv(el.attrs[attributeName]) ELSE Bool(FALSE)

getAttributeValue(el, attributeName) ==
    IF Is(el, attributeName)
    THEN IF StartsWith(attributeName, DataPrefix)
         THEN Data(el, Substring(attributeName, 5))
         ELSE Attr(el, attributeName)
    ELSE Bool(FALSE)

\* $(testValues).filter(inputValues): the elements of testValues that occur
\* in inputValues.
Filter(testValues, inputValues) ==
    SelectSeq(testValues, LAMBDA e : \E k \in DOMAIN inputValues : inputValues[k] = e)

\* hasInputValues without the cast of a scalar to its string form.
hasInputValues_uncast(inputValues, testValues) ==
    LET tv == IF testValues.t # "arr" THEN <<testValues>> ELSE testValues.a
    IN  Len(Filter(tv, inputValues)) > 0

hasInputValues(inputValues, testValues) ==
    LET tv == IF testValues.t # "arr" THEN <<Str(JsToString(testValues))>> ELSE testValues.a
    IN  Len(Filter(tv, inputValues)) > 0

determineActive(names, el, inputValues) ==
    LET activeValues == getAttributeValue(el, names.activeValue)
        inactiveValues == getAttributeValue(el, names.inactiveValue)
    IN  IF Truthy(activeValues) THEN Bool(hasInputValues(inputValues, activeValues))
        ELSE IF Truthy(inactiveValues) THEN Bool(~hasInputValues(inputValues, inactiveValues))
        ELSE Undefined

\* $toggle.attr(name) || ''
AttrOrEmpty(el, name) == IF Truthy(Attr(el, name)) THEN Attr(el, name).s ELSE s_empty

\* toggleClass acting on the active class directive alone.
toggleClass_activeOnly(names, el, isActive) ==
    LET activeClass == AttrOrEmpty(el, names.activeClass)
    IN  IF Len(activeClass) > 0
        THEN IF Truthy(isActive) THEN AddClass(el, activeClass)
             ELSE RemoveClass(el, activeClass)
        ELSE el

toggleClass(names, el, isActive) ==
    LET activeClass == AttrOrEmpty(el, names.activeClass)
        inactiveClass == AttrOrEmpty(el, names.inactiveClass)
        first == IF Len(activeClass) > 0
                 THEN IF Truthy(isActive) THEN AddClass(el, activeClass)
                      ELSE RemoveClass(el, activeClass)
                 ELSE el
    IN  IF Len(inactiveClass) > 0
        THEN IF Truthy(isActive) THEN RemoveClass(first, inactiveClass)
             ELSE AddClass(first, inactiveClass)
        ELSE first

parseToggleAttribute(el, attribute) ==
    IF Is(el, attribute)
    THEN LET splitEqual == Split(Attr(el, attribute).s, "=")
         IN  IF Len(splitEqual) > 1
             THEN [attribute |-> splitEqual[1], value |-> splitEqual[2]]
             ELSE [attribute |-> Attr(el, attribute).s, value |-> s_empty]
    ELSE [attribute |-> s_empty, value |-> s_empty]

\* The set branch of toggleAttribute: attr(name, value) when the value is
\* not empty, and the getter attr(name), which changes nothing, otherwise.
SetDirective(el, d) ==
    IF Len(d.attribute) > 0
    THEN IF Len(d.value) > 0 THEN SetAttr(el, d.attribute, d.value) ELSE el
    ELSE el

\* The remove branch of toggleAttribute.
RemoveDirective(el, d) ==
    IF Len(d.attribute) > 0 THEN RemoveAttr(el, d.attribute) ELSE el

toggleAttribute(names, el, isActive) ==
    LET activeAttribute == parseToggleAttribute(el, names.activeAttribute)
        inactiveAttribute == parseToggleAttribute(el, names.inactiveAttribute)
    IN  IF Truthy(isActive)
        THEN RemoveDirective(SetDirective(el, activeAttribute), inactiveAttribute)
        ELSE SetDirective(RemoveDirective(el, activeAttribute), inactiveAttribute)

\* update visiting the toggles from the last to the first.
RECURSIVE update_backwards(_, _, _, _, _)
update_backwards(names, st, toggles, inputValues, k) ==
    IF k > Len(toggles) THEN st
    ELSE LET t == toggles[Len(toggles) + 1 - k]
             el == st.targets[t]
             isActive == determineActive(names, el, inputValues)
             after == toggleAttribute(names, toggleClass(names, el, isActive), isActive)
         IN  update_backwards(names,
                    [targets |-> [st.targets EXCEPT ![t] = after],
                     evals   |-> Append(st.evals, [t |-> t, isActive |-> isActive])],
                    toggles, inputValues, k + 1)

\* update(toggles, inputValues) from the k-th toggle on; st holds the
\* targets and the isActive computed for each toggle so far, in order.
RECURSIVE update(_, _, _, _, _)
update(names, st, toggles, inputValues, k) ==
    IF k > Len(toggles) THEN st
    ELSE LET el == st.targets[toggles[k]]
             isActive == determineActive(names, el, inputValues)
             after == toggleAttribute(names, toggleClass(names, el, isActive), isActive)
         IN  update(names,
                    [targets |-> [st.targets EXCEPT ![toggles[k]] = after],
                     evals   |-> Append(st.evals, [t |-> toggles[k], isActive |-> isActive])],
                    toggles, inputValues, k + 1)

(* ------------------------------ the page ------------------------------- *)

\* $scope.find(...) reaches the elements inside the scope element.
Inside(el, scope) == scope = "doc" \/ el.in = scope

\* The values of the selected options of a multi-select, in option order.
RECURSIVE SelectedFrom(_, _)
SelectedFrom(inp, k) ==
    IF k > Len(inp.options) THEN << >>
    ELSE (IF k \in inp.selected THEN <<Str(inp.options[k])>> ELSE << >>)
         \o SelectedFrom(inp, k + 1)

\* $(input).val(): before jQuery 3 a multi-select with nothing selected
\* gives null, from jQuery 3 on the empty array.
Val(inp, jqv) ==
    IF inp.type = "select-multiple"
    THEN IF inp.selected = {} /\ jqv = "before3" THEN Null
         ELSE Arr(SelectedFrom(inp, 1))
    ELSE Str(inp.value)

RECURSIVE getInputValuesFrom(_, _, _, _, _)
getInputValuesFrom(inps, inputName, scope, jqv, k) ==
    IF k > Len(inps) THEN << >>
    ELSE LET input == inps[k]
             inputValue == Val(input, jqv)
             here == IF ~(Inside(input, scope) /\ input.name = inputName) THEN << >>
                     ELSE IF input.type \in {"checkbox", "radio"}
                     THEN IF input.checked THEN <<inputValue>> ELSE << >>
                     ELSE IF inputValue.t = "arr" THEN inputValue.a
                     ELSE <<inputValue>>
         IN  here \o getInputValuesFrom(inps, inputName, scope, jqv, k + 1)

\* getInputValues searching the whole document instead of the scope.
getInputValues_document(inps, inputName, scope, jqv) ==
    getInputValuesFrom(inps, inputName, "doc", jqv, 1)

getInputValues(inps, inputName, scope, jqv) ==
    getInputValuesFrom(inps, inputName, scope, jqv, 1)

(* ------------------------------- init ---------------------------------- *)

Containers == {"A", "B"}

\* The position of the group of inputName in toggles, or 0.
GroupOf(toggles, inputName) ==
    IF \E k \in DOMAIN toggles : toggles[k].name = inputName
    THEN CHOOSE k \in DOMAIN toggles : toggles[k].name = inputName
    ELSE 0

\* The toggles object of init: the valid toggles inside the scope from
\* element t on, grouped by input name in the order of their first element.
RECURSIVE Register(_, _, _, _, _)
Register(names, tgts, scope, t, toggles) ==
    IF t > Len(tgts) THEN toggles
    ELSE LET el == tgts[t]
             inputName == Attr(el, names.toggled).s
             at == GroupOf(toggles, inputName)
             next == IF ~(Inside(el, scope) /\ Is(el, names.toggled)) THEN toggles
                     ELSE IF ~validateToggle(names, el) THEN toggles
                     ELSE IF ~(Len(inputName) > 0) THEN toggles
                     ELSE IF at = 0
                     THEN Append(toggles, [name |-> inputName, ts |-> <<t>>])
                     ELSE [toggles EXCEPT ![at].ts = Append(@, t)]
         IN  Register(names, tgts, scope, t + 1, next)

\* A binding that leaves the handlers bound before in place.
Off_keep(hs) == hs

\* $(this).off('change.InputToggle')
Off(hs) == << >>

\* .on('change.InputToggle', handler)
On(hs, h) == Append(hs, h)

\* The loop of init without the test for inputs: every group is evaluated,
\* the groups whose name no input in the scope carries included.
RECURSIVE Bind_unguarded(_, _, _, _, _, _, _)
Bind_unguarded(names, inps, jqv, scope, toggles, k, st) ==
    IF k > Len(toggles) THEN st
    ELSE LET g == toggles[k]
             found == {i \in DOMAIN inps : Inside(inps[i], scope) /\ inps[i].name = g.name}
             h == [toggles |-> g.ts, name |-> g.name, scope |-> scope]
             values == getInputValues(inps, g.name, scope, jqv)
             u == update(names, [targets |-> st.targets, evals |-> << >>], g.ts, values, 1)
             next == [handlers |-> [i \in DOMAIN st.handlers |->
                                       IF i \in found THEN On(Off(st.handlers[i]), h)
                                       ELSE st.handlers[i]],
                      targets  |-> u.targets,
                      runs     |-> st.runs]
         IN  Bind_unguarded(names, inps, jqv, scope, toggles, k + 1, next)

\* The loop of init over the groups, from the k-th on: st holds the
\* handlers, the targets and the evaluations made so far.
RECURSIVE Bind(_, _, _, _, _, _, _)
Bind(names, inps, jqv, scope, toggles, k, st) ==
    IF k > Len(toggles) THEN st
    ELSE LET g == toggles[k]
             found == {i \in DOMAIN inps : Inside(inps[i], scope) /\ inps[i].name = g.name}
             h == [toggles |-> g.ts, name |-> g.name, scope |-> scope]
             values == getInputValues(inps, g.name, scope, jqv)
             u == update(names, [targets |-> st.targets, evals |-> << >>], g.ts, values, 1)
             next == IF found = {} THEN st
                     ELSE [handlers |-> [i \in DOMAIN st.handlers |->
                                            IF i \in found THEN On(Off(st.handlers[i]), h)
                                            ELSE st.handlers[i]],
                           targets  |-> u.targets,
                           runs     |-> Append(st.runs,
                                          [name |-> g.name, scope |-> scope, toggles |-> g.ts,
                                           values |-> values, evals |-> u.evals])]
         IN  Bind(names, inps, jqv, scope, toggles, k + 1, next)

\* The record of the last operation.
NoLast ==
    [op |-> "none", scope |-> "doc", opts |-> {}, input |-> 0,
     names |-> DefaultAttributes, groups |-> << >>, runs |-> << >>,
     values |-> << >>, arg |-> Undefined, before |-> << >>, ret |-> Undefined]

\* InputToggle.init(scope, options); options is the set of the
\* <<role, name>> pairs of options.attributes, empty when none is passed.
InitCall(scope, options) ==
    /\ LET dscope == IF scope \in Containers THEN scope ELSE "doc"
           names == Extend(attributes, AttrMap(options))
           toggles == Register(names, targets, dscope, 1, << >>)
           st == Bind(names, inputs, jq, dscope, toggles, 1,
                      [handlers |-> handlers, targets |-> targets, runs |-> << >>])
       IN  /\ attributes' = names
           /\ handlers' = st.handlers
           /\ targets' = st.targets
           /\ last' = [NoLast EXCEPT !.op = "init", !.scope = dscope, !.opts = options,
                                     !.names = names, !.groups = toggles,
                                     !.runs = st.runs]
    /\ UNCHANGED <<inputs, jq>>

(* --------------------------- change events ----------------------------- *)

\* The handlers bound to an input run in the order they were bound; each
\* collects the values of its own name and scope and updates its toggles.
RECURSIVE RunHandlers(_, _, _, _, _, _)
RunHandlers(names, inps, jqv, hs, k, st) ==
    IF k > Len(hs) THEN st
    ELSE LET h == hs[k]
             values == getInputValues(inps, h.name, h.scope, jqv)
             u == update(names, [targets |-> st.targets, evals |-> << >>], h.toggles, values, 1)
         IN  RunHandlers(names, inps, jqv, hs, k + 1,
                 [targets |-> u.targets,
                  runs    |-> Append(st.runs,
                                [name |-> h.name, scope |-> h.scope, toggles |-> h.toggles,
                                 values |-> values, evals |-> u.evals])])

\* The texts a user types into a text input.
TextValues == {s_empty, s_1}

\* The states a user can bring input i to, each firing one change event.
UserChoices(inps, i) ==
    CASE inps[i].type = "checkbox" ->
            {[inps EXCEPT ![i].checked = ~@]}
      [] inps[i].type = "radio" ->
            IF inps[i].checked THEN {}
            ELSE {[j \in DOMAIN inps |->
                     IF j = i THEN [inps[j] EXCEPT !.checked = TRUE]
                     ELSE IF inps[j].type = "radio" /\ inps[j].name = inps[i].name
                     THEN [inps[j] EXCEPT !.checked = FALSE]
                     ELSE inps[j]]}
      [] inps[i].type = "select-multiple" ->
            {[inps EXCEPT ![i].selected = sel] :
                sel \in (SUBSET (DOMAIN inps[i].options)) \ {inps[i].selected}}
      [] OTHER ->
            {[inps EXCEPT ![i].value = v] : v \in TextValues \ {inps[i].value}}

\* The user changes input i and the browser fires its change event.
ChangeEvent(i) ==
    /\ \E inps \in UserChoices(inputs, i) :
          LET st == RunHandlers(attributes, inps, jq, handlers[i], 1,
                                [targets |-> targets, runs |-> << >>])
          IN  /\ inputs' = inps
              /\ targets' = st.targets
              /\ last' = [NoLast EXCEPT !.op = "change", !.input = i,
                                        !.names = attributes, !.runs = st.runs]
    /\ UNCHANGED <<attributes, handlers, jq>>

(* ------------------------------ the pages ------------------------------ *)

Checkbox(in, name, value) ==
    [in |-> in, name |-> name, type |-> "checkbox", value |-> value,
     checked |-> FALSE, options |-> << >>, selected |-> {}]

Radio(in, name, value) ==
    [in |-> in, name |-> name, type |-> "radio", value |-> value,
     checked |-> FALSE, options |-> << >>, selected |-> {}]

Text(in, name) ==
    [in |-> in, name |-> name, type |-> "text", value |-> s_empty,
     checked |-> FALSE, options |-> << >>, selected |-> {}]

MultiSelect(in, name, options) ==
    [in |-> in, name |-> name, type |-> "select-multiple", value |-> s_empty,
     checked |-> FALSE, options |-> options, selected |-> {}]

\* A toggled element: its markers (a set of <<role, text>> pairs) under the
\* marker names given, its other attributes and its classes.
Toggled(names, in, markers, others, classes) ==
    [in |-> in,
     attrs |-> AttrMap({<<names[m[1]], m[2]>> : m \in markers} \cup others),
     classes |-> classes]

\* The marker names an init call may pass: none, or names for the two
\* value markers that lack the data- prefix.
CustomNames == {<<"activeValue", s_av>>, <<"inactiveValue", s_iv>>}
OptionChoices == {{}, CustomNames}

\* The scope arguments of init: an element, or none.
ScopeChoices == {"A", "B", "none"}

\* The inputs of a page, in document order: two inside A, one inside B,
\* all of the name "n".
PageInputs ==
    {<<i1, i2, i3>> :
        i1 \in {MultiSelect("A", s_n, <<s_1, s_2>>)},
        i2 \in {Radio("A", s_n, s_0)},
        i3 \in {Checkbox("B", s_n, s_1)}}

\* The markup of the first toggled element, inside A: an active value with
\* classes, an inactive JSON array with an attribute, the active value "0",
\* both values, no value, a name no input has, and an empty name.
FirstMarkers ==
    {{<<"toggled", s_n>>, <<"activeValue", s_1>>, <<"activeClass", s_on_hi>>,
      <<"inactiveClass", s_off>>},
     {<<"toggled", s_n>>, <<"inactiveValue", s_arr12>>, <<"activeAttribute", s_checked_eq>>,
      <<"inactiveClass", s_off>>},
     {<<"toggled", s_n>>, <<"activeValue", s_0>>, <<"activeClass", s_on>>},
     {<<"toggled", s_n>>, <<"activeValue", s_1>>, <<"inactiveValue", s_2>>,
      <<"activeClass", s_on>>},
     {<<"toggled", s_n>>, <<"activeClass", s_on>>},
     {<<"toggled", s_x>>, <<"activeValue", s_1>>, <<"activeClass", s_on>>},
     {<<"toggled", s_empty>>, <<"activeValue", s_1>>, <<"activeClass", s_on>>}}

\* The markup of the second toggled element, inside B, which also carries
\* the active value "1" under the custom name.
SecondMarkers ==
    {{<<"toggled", s_n>>, <<"inactiveValue", s_1>>, <<"inactiveClass", s_off>>},
     {<<"toggled", s_n>>, <<"activeValue", s_2>>, <<"activeClass", s_on>>}}

PageTargets ==
    {<<t1, t2>> :
        t1 \in {Toggled(DefaultAttributes, "A", m, {}, {s_x, s_on, s_off}) : m \in FirstMarkers},
        t2 \in {Toggled(DefaultAttributes, "B", m, {<<s_av, s_1>>}, {s_x}) : m \in SecondMarkers}}

\* The page as loaded, before any init call and any user action.
Init ==
    /\ attributes = DefaultAttributes
    /\ inputs \in PageInputs
    /\ targets \in PageTargets
    /\ handlers = [i \in 1..3 |-> << >>]
    /\ jq \in {"before3", "from3"}
    /\ last = NoLast

Next ==
    \/ \E scope \in ScopeChoices, options \in OptionChoices : InitCall(scope, options)
    \/ \E i \in DOMAIN inputs : ChangeEvent(i)

Spec == Init /\ [][Next]_vars

(* ------------------- the functions called on their own ----------------- *)

\* The value sequences of at most n elements over a pool.
RECURSIVE SeqsUpTo(_, _)
SeqsUpTo(pool, n) ==
    IF n = 0 THEN {<< >>}
    ELSE SeqsUpTo(pool, n - 1)
         \cup {Append(v, x) : v \in {w \in SeqsUpTo(pool, n - 1) : Len(w) = n - 1}, x \in pool}

\* The values inputs contribute: texts, among them the text of a JSON
\* array typed into a text input, and the null of an empty multi-select
\* before jQuery 3.
ValuePool == {Str(s_0), Str(s_1), Str(s_2), Str(s_false), Str(s_arr12), Null}

\* The texts of a value marker.
CriterionTexts ==
    {s_empty, s_0, s_1, s_a, s_true, s_false, s_null, s_arr12, s_arrnum, s_badarr,
     s_emptyarr}

\* The markup of a page that declares value markers: each of the two is
\* absent or holds one of the texts, and one directive is declared.
CriterionMarkers ==
    {({<<"toggled", s_n>>, <<"activeClass", s_on>>}
        \cup {<<"activeValue", a>> : a \in act}) \cup {<<"inactiveValue", b>> : b \in ina} :
        act \in {{}} \cup {{c} : c \in CriterionTexts},
        ina \in {{}, {s_0}, {s_1}, {s_arr12}}}

\* The inputs of the pages on which only the toggled element matters.
PlainInputs ==
    <<MultiSelect("A", s_n, <<s_1, s_2>>), Radio("A", s_n, s_0), Checkbox("B", s_n, s_1)>>

\* A page with one toggled element whose value markers vary, under the
\* default marker names or under custom names without the data- prefix.
InitResolve ==
    /\ attributes \in {DefaultAttributes, Extend(DefaultAttributes, AttrMap(CustomNames))}
    /\ inputs = PlainInputs
    /\ targets \in {<<Toggled(attributes, "A", m, {}, {s_x})>> : m \in CriterionMarkers}
    /\ handlers = [i \in 1..3 |-> << >>]
    /\ jq = "from3"
    /\ last = NoLast

\* determineActive(toggle, inputValues)
CallDetermineActive(V) ==
    /\ last.op = "none"
    /\ last' = [NoLast EXCEPT !.op = "determineActive", !.names = attributes, !.values = V,
                              !.ret = determineActive(attributes, targets[1], V)]
    /\ UNCHANGED <<attributes, inputs, targets, handlers, jq>>

\* hasInputValues(inputValues, testValues), with the test values
\* determineActive hands to it: a value marker's value that is truthy.
CallHasInputValues(V, role) ==
    /\ last.op = "none"
    /\ role \in {"activeValue", "inactiveValue"}
    /\ Truthy(getAttributeValue(targets[1], attributes[role]))
    /\ last' = [NoLast EXCEPT !.op = "hasInputValues", !.names = attributes, !.values = V,
                              !.arg = getAttributeValue(targets[1], attributes[role]),
                              !.ret = Bool(hasInputValues(V,
                                          getAttributeValue(targets[1], attributes[role])))]
    /\ UNCHANGED <<attributes, inputs, targets, handlers, jq>>

NextResolve ==
    \/ \E V \in SeqsUpTo(ValuePool, MaxValues) : CallDetermineActive(V)
    \/ \E V \in SeqsUpTo(ValuePool, MaxValues), role \in {"activeValue", "inactiveValue"} :
          CallHasInputValues(V, role)

SpecResolve == InitResolve /\ [][NextResolve]_vars

\* The states of one input: unchecked or checked, empty or filled, and
\* every selection of a multi-select.
InputStates(in, name, value) ==
    {[Checkbox(in, name, value) EXCEPT !.checked = c] : c \in BOOLEAN}
    \cup {[Radio(in, name, value) EXCEPT !.checked = c] : c \in BOOLEAN}
    \cup {[Text(in, name) EXCEPT !.value = v] : v \in TextValues}
    \cup {[MultiSelect(in, name, <<s_1, s_2>>) EXCEPT !.selected = sel] : sel \in SUBSET {1, 2}}

\* The browser keeps at most one radio of a name checked.
RadiosExclusive(inps) ==
    \A i, j \in DOMAIN inps :
        (/\ i # j
         /\ inps[i].type = "radio" /\ inps[j].type = "radio"
         /\ inps[i].name = inps[j].name)
        => ~(inps[i].checked /\ inps[j].checked)

\* The pages whose inputs vary: one input named "n" inside A, followed by
\* one inside A or B named "n" or "m".
CollectInputs ==
    {inps \in {<<i1, i2>> :
                  i1 \in InputStates("A", s_n, s_1),
                  i2 \in UNION {InputStates(in, name, s_2) : in \in {"A", "B"}, name \in {s_n, s_m}}} :
        RadiosExclusive(inps)}

PlainTarget ==
    Toggled(DefaultAttributes, "A",
            {<<"toggled", s_n>>, <<"activeValue", s_1>>, <<"activeClass", s_on>>}, {}, {s_x})

InitCollect ==
    /\ attributes = DefaultAttributes
    /\ inputs \in CollectInputs
    /\ targets = <<PlainTarget>>
    /\ handlers = [i \in 1..2 |-> << >>]
    /\ jq \in {"before3", "from3"}
    /\ last = NoLast

\* getInputValues(inputName, $scope)
CallGetInputValues(inputName, scope) ==
    /\ last.op = "none"
    /\ last' = [NoLast EXCEPT !.op = "getInputValues", !.scope = scope, !.arg = Str(inputName),
                              !.values = getInputValues(inputs, inputName, scope, jq)]
    /\ UNCHANGED <<attributes, inputs, targets, handlers, jq>>

NextCollect ==
    \E inputName \in {s_n, s_m}, scope \in {"doc", "A", "B"} :
        CallGetInputValues(inputName, scope)

SpecCollect == InitCollect /\ [][NextCollect]_vars

\* The markup of the pages whose directives vary: a value marker that
\* resolves ("1") or that does not ("0"), and each directive absent or one
\* of a few texts.
DirectiveMarkers ==
    {(((({<<"toggled", s_n>>, <<"activeValue", v>>}
          \cup {<<"activeClass", c>> : c \in ac})
          \cup {<<"inactiveClass", c>> : c \in ic})
          \cup {<<"activeAttribute", d>> : d \in aa})
          \cup {<<"inactiveAttribute", d>> : d \in ia}) :
        v \in {s_1, s_0},
        ac \in {{}, {s_on_hi}, {s_empty}},
        ic \in {{}, {s_off}, {s_on}},
        aa \in {{}, {s_disabled}, {s_checked_eq}, {s_aria_false}, {s_datax_eq}, {s_hidden_eq}},
        ia \in {{}, {s_disabled}, {s_aria_true}, {s_empty}}}

\* What the element carries besides its markers when the page loads.
InitialOthers == {{}, {<<s_aria_hidden, s_x>>, <<s_disabled, s_empty>>, <<s_title, s_x>>}}
InitialClasses == {{s_x}, {s_x, s_on, s_off}}

\* A toggled element of the page that is not handed to update.
Bystander ==
    Toggled(DefaultAttributes, "B",
            {<<"toggled", s_n>>, <<"activeValue", s_1>>, <<"activeClass", s_on>>}, {}, {s_x})

InitToggle ==
    /\ attributes = DefaultAttributes
    /\ inputs = PlainInputs
    /\ targets \in {<<Toggled(DefaultAttributes, "A", m, o, c), Bystander>> :
                       m \in DirectiveMarkers, o \in InitialOthers, c \in InitialClasses}
    /\ handlers = [i \in 1..3 |-> << >>]
    /\ jq = "from3"
    /\ last = NoLast

\* The applications remembered after one more: the element before it and
\* the isActive applied, the latest first.
Trail(before, el, isActive) ==
    SubSeq(<<[el |-> el, isActive |-> isActive]>> \o before, 1,
           IF Len(before) + 1 > MaxTrail THEN MaxTrail ELSE Len(before) + 1)

\* update(toggles, inputValues) on the one toggled element of the page.
CallUpdate(V) ==
    /\ LET u == update(attributes, [targets |-> targets, evals |-> << >>], <<1>>, V, 1)
       IN  /\ targets' = u.targets
           /\ last' = [NoLast EXCEPT !.op = "update", !.names = attributes, !.values = V,
                                     !.runs = <<[name |-> s_n, scope |-> "doc", toggles |-> <<1>>,
                                                 values |-> V, evals |-> u.evals]>>,
                                     !.before = Trail(last.before, targets[1],
                                                      u.evals[1].isActive)]
    /\ UNCHANGED <<attributes, inputs, handlers, jq>>

NextToggle == \E V \in {<< >>, <<Str(s_1)>>} : CallUpdate(V)

SpecToggle == InitToggle /\ [][NextToggle]_vars

\* parseToggleAttribute($toggle, attribute) on the element of a page whose
\* directives vary.
CallParseToggleAttribute(role) ==
    /\ last.op = "none"
    /\ last' = [NoLast EXCEPT !.op = "parseToggleAttribute", !.names = attributes,
                              !.arg = Str(attributes[role]),
                              !.ret = parseToggleAttribute(targets[1], attributes[role])]
    /\ UNCHANGED <<attributes, inputs, targets, handlers, jq>>

NextParse == \E role \in {"activeAttribute", "inactiveAttribute"} : CallParseToggleAttribute(role)

SpecParse == InitToggle /\ [][NextParse]_vars

(* ------------------------------- claims -------------------------------- *)

\* The criterion a value marker's text declares: the elements of a JSON
\* array, or the text itself.
DeclaredCriterion(text) ==
    IF Len(text) >= 2 /\ text[1] = "[" /\ text[Len(text)] = "]" /\ ParseArray(text).ok
    THEN {ParseArray(text).a[k] : k \in DOMAIN ParseArray(text).a}
    ELSE {Str(text)}

\* Some element of the value sequence is an element of the criterion.
Intersects(V, C) == \E k \in DOMAIN V : V[k] \in C

\* C2: for a target that passes validation and declares only an active
\* value A through the default data- marker, determineActive returns
\* intersects(V, A); with only an inactive value B it returns the negation
\* of intersects(V, B); whatever non-empty text the marker carries.
C2_ResolveIsIntersects ==
    (/\ last.op = "determineActive"
     /\ last.names = DefaultAttributes
     /\ validateToggle(DefaultAttributes, targets[1]))
    => LET el == targets[1]
           a == DefaultAttributes.activeValue
           b == DefaultAttributes.inactiveValue
       IN  /\ (NonEmptyMarker(el, a) /\ ~NonEmptyMarker(el, b))
                => last.ret = Bool(Intersects(last.values, DeclaredCriterion(el.attrs[a])))
           /\ (NonEmptyMarker(el, b) /\ ~NonEmptyMarker(el, a))
                => last.ret = Bool(~Intersects(last.values, DeclaredCriterion(el.attrs[b])))

\* The criterion set of hasInputValues: the elements of an array, or the
\* string form of a scalar.
CriterionSet(C) ==
    IF C.t = "arr" THEN {C.a[k] : k \in DOMAIN C.a} ELSE {Str(C.s)}

\* C3: hasInputValues(V, C) is true exactly when some element of V equals
\* some element of C, a scalar C standing for the singleton of its string
\* form; an empty V and an empty criterion set give false.
C3_HasInputValues ==
    last.op = "hasInputValues"
    => last.ret = Bool(\E k \in DOMAIN last.values : last.values[k] \in CriterionSet(last.arg))

\* C3 witness: a numeric criterion matched by the second of two different
\* values.
C3_Witness ==
    /\ last.op = "hasInputValues"
    /\ last.arg.t = "num"
    /\ Len(last.values) = 2
    /\ last.values[1] \notin CriterionSet(last.arg)
    /\ last.values[2] \in CriterionSet(last.arg)
    /\ last.ret = Bool(TRUE)

\* What an input contributes to the values of its name: its value when it
\* is a checked checkbox or radio, each selected value of a multi-select,
\* and the value of any other input.
Contribution(inp) ==
    IF inp.type \in {"checkbox", "radio"}
    THEN IF inp.checked THEN <<Str(inp.value)>> ELSE << >>
    ELSE IF inp.type = "select-multiple"
    THEN [k \in 1..Cardinality(inp.selected) |->
             Str(inp.options[CHOOSE o \in inp.selected :
                               Cardinality({p \in inp.selected : p < o}) = k - 1])]
    ELSE <<Str(inp.value)>>

\* The contributions of the inputs of a name inside a scope, in document
\* order, from the k-th input on.
RECURSIVE ExpectedValues(_, _, _, _)
ExpectedValues(inps, inputName, scope, k) ==
    IF k > Len(inps) THEN << >>
    ELSE (IF Inside(inps[k], scope) /\ inps[k].name = inputName
          THEN Contribution(inps[k]) ELSE << >>)
         \o ExpectedValues(inps, inputName, scope, k + 1)

\* C4: getInputValues returns, in document order over the inputs of the
\* name inside the scope, the value of each checked checkbox or radio, each
\* selected value of a multi-select (none when nothing is selected) and the
\* value of every other input.
C4_CollectedValues ==
    last.op = "getInputValues"
    => last.values = ExpectedValues(inputs, last.arg.s, last.scope, 1)

\* A directive that is a bare attribute name.
BareName(text) == Len(text) > 0 /\ IndexFrom(text, "=", 1) = 0

\* A directive of the form name=value.
NameValue(text) ==
    /\ Len(Split(text, "=")) = 2
    /\ Len(Split(text, "=")[1]) > 0
    /\ Len(Split(text, "=")[2]) > 0

\* The isActive the last update applied to the element of the page.
AppliedActive == last.runs[1].evals[1].isActive

\* The text of a directive of the element of the page, empty when absent.
Directive(role) == AttrOrEmpty(targets[1], last.names[role])

\* C5: after update with isActive = true an active attribute that is a
\* bare name is present on the target, and after update with isActive =
\* false an inactive attribute that is a bare name is.
C5_PresenceOnly ==
    last.op = "update"
    => /\ (AppliedActive = Bool(TRUE) /\ BareName(Directive("activeAttribute")))
            => Is(targets[1], Directive("activeAttribute"))
       /\ (AppliedActive = Bool(FALSE) /\ BareName(Directive("inactiveAttribute")))
            => Is(targets[1], Directive("inactiveAttribute"))

\* The attribute of the target a name=value directive names holds its value.
InForce(el, text) ==
    /\ Is(el, Split(text, "=")[1])
    /\ el.attrs[Split(text, "=")[1]] = Split(text, "=")[2]

\* C6: after update with isActive = true the attribute of an active
\* name=value directive holds that value, whatever the inactive directive
\* is, and after update with isActive = false that of an inactive one does.
C6_NameValueInForce ==
    last.op = "update"
    => /\ (AppliedActive = Bool(TRUE) /\ NameValue(Directive("activeAttribute")))
            => InForce(targets[1], Directive("activeAttribute"))
       /\ (AppliedActive = Bool(FALSE) /\ NameValue(Directive("inactiveAttribute")))
            => InForce(targets[1], Directive("inactiveAttribute"))

\* The validity of a target's markup as the specification states it:
\* exactly one of the two value markers is non-empty and some directive is.
ExactlyOneValid(names, el) ==
    /\ NonEmptyMarker(el, names.activeValue) # NonEmptyMarker(el, names.inactiveValue)
    /\ \/ NonEmptyMarker(el, names.activeClass)
       \/ NonEmptyMarker(el, names.inactiveClass)
       \/ NonEmptyMarker(el, names.activeAttribute)
       \/ NonEmptyMarker(el, names.inactiveAttribute)

\* The criterion a value marker declares under a marker name: JSON arrays
\* are read under data- names only.
CriterionUnder(name, text) ==
    IF StartsWith(name, DataPrefix) THEN DeclaredCriterion(text) ELSE {Str(text)}

\* resolve(config, V) of a target with exactly one value marker.
Resolve(names, el, V) ==
    IF NonEmptyMarker(el, names.activeValue)
    THEN Intersects(V, CriterionUnder(names.activeValue, el.attrs[names.activeValue]))
    ELSE ~Intersects(V, CriterionUnder(names.inactiveValue, el.attrs[names.inactiveValue]))

ActiveClasses(names, el) == ClassNames(AttrOrEmpty(el, names.activeClass))
InactiveClasses(names, el) == ClassNames(AttrOrEmpty(el, names.inactiveClass))

\* The class state prescribed for isActive.
Prescribed(names, el, isActive) ==
    IF isActive
    THEN ActiveClasses(names, el) \subseteq el.classes
         /\ InactiveClasses(names, el) \cap el.classes = {}
    ELSE InactiveClasses(names, el) \subseteq el.classes
         /\ ActiveClasses(names, el) \cap el.classes = {}

\* C1: when init returns, and after every change event a binding handled,
\* every valid target of each evaluated group inside the scope, with
\* disjoint active and inactive classes, is in the state prescribed for
\* resolve(config, collect(N, scope)) on the current values of the inputs.
C1_Synchronised ==
    last.op \in {"init", "change"}
    => \A k \in DOMAIN last.runs : \A t \in DOMAIN targets :
          LET r == last.runs[k]
              el == targets[t]
          IN  (/\ Inside(el, r.scope)
               /\ Is(el, last.names.toggled)
               /\ el.attrs[last.names.toggled] = r.name
               /\ ExactlyOneValid(last.names, el)
               /\ ActiveClasses(last.names, el) \cap InactiveClasses(last.names, el) = {})
              => Prescribed(last.names, el,
                            Resolve(last.names, el, ExpectedValues(inputs, r.name, r.scope, 1)))

\* The targets the last init registered, and those the last operation
\* evaluated.
Registered(t) == \E k \in DOMAIN last.groups : \E j \in DOMAIN last.groups[k].ts :
                    last.groups[k].ts[j] = t
Evaluated(t) == \E k \in DOMAIN last.runs : \E j \in DOMAIN last.runs[k].evals :
                    last.runs[k].evals[j].t = t

AtLeastOneValid(names, el) ==
    /\ \E r \in {"activeValue", "inactiveValue"} : NonEmptyMarker(el, names[r])
    /\ \E r \in {"activeClass", "inactiveClass", "activeAttribute", "inactiveAttribute"} :
          NonEmptyMarker(el, names[r])

C8_ReplaceNotStack ==
    [][/\ \A i \in DOMAIN handlers' : Len(handlers'[i]) <= 1
       /\ last'.op = "change"
          => /\ Len(last'.runs) <= 1
             /\ \A k \in DOMAIN last'.runs :
                   \A a, b \in DOMAIN last'.runs[k].evals :
                      a # b => last'.runs[k].evals[a].t # last'.runs[k].evals[b].t
       /\ (/\ last.op = "init" /\ last'.op = "init"
           /\ last'.scope = last.scope
           /\ last'.opts \in {last.opts, {}})
          => /\ handlers' = handlers
             /\ targets' = targets]_vars

\* C8 witness: after init on the document and init on A, the inputs inside
\* A carry the one handler of A and the input inside B the one of the
\* document.
C8_Witness ==
    /\ last.op = "init"
    /\ Len(handlers[1]) = 1 /\ handlers[1][1].scope = "A"
    /\ Len(handlers[3]) = 1 /\ handlers[3][1].scope = "doc"

\* The states a user can give to an input.
StatesOf(inp) ==
    {[inp EXCEPT !.checked = c, !.selected = sel] :
        c \in (IF inp.type \in {"checkbox", "radio"} THEN BOOLEAN ELSE {inp.checked}),
        sel \in SUBSET (DOMAIN inp.options)}

\* The pages that differ from inps only in inputs outside the scope, from
\* the k-th input on.
RECURSIVE Alternatives(_, _, _)
Alternatives(inps, scope, k) ==
    IF k > Len(inps) THEN {<< >>}
    ELSE {<<a>> \o rest :
             a \in (IF Inside(inps[k], scope) THEN {inps[k]} ELSE StatesOf(inps[k])),
             rest \in Alternatives(inps, scope, k + 1)}

\* C9: the targets a binding evaluates lie inside the scope of its init
\* call, and the values they are resolved against are those of the inputs
\* inside that scope: whatever the inputs outside hold, the same values
\* are collected, at init and on every change event the binding handles.
C9_ScopeIsolation ==
    last.op \in {"init", "change"}
    => \A k \in DOMAIN last.runs :
          LET r == last.runs[k]
          IN  /\ \A j \in DOMAIN r.toggles : Inside(targets[r.toggles[j]], r.scope)
              /\ \A alt \in Alternatives(inputs, r.scope, 1) :
                    getInputValues(alt, r.name, r.scope, jq) = r.values

\* C9 witness: a change event handled by the binding of A while the input
\* of the same name inside B is checked, its value not among the values.
C9_Witness ==
    /\ last.op = "change"
    /\ Len(last.runs) = 1
    /\ last.runs[1].scope = "A"
    /\ inputs[3].in = "B" /\ inputs[3].checked
    /\ inputs[3].name = last.runs[1].name
    /\ \A j \in DOMAIN last.runs[1].values : last.runs[1].values[j] # Str(inputs[3].value)
    /\ Len(last.runs[1].toggles) > 0

\* C10: every init call discovers and validates with the marker names its
\* own options give (the defaults where it gives none), and leaves the
\* resolution of the targets of the bindings it does not touch as it was.
C10_OwnMarkerNames ==
    [][last'.op = "init"
       => /\ last'.names = Extend(DefaultAttributes, AttrMap(last'.opts))
          /\ \A i \in DOMAIN handlers :
                (Len(handlers[i]) > 0 /\ handlers'[i] = handlers[i])
                => \A j \in DOMAIN handlers[i][1].toggles :
                      \A V \in SeqsUpTo(ValuePool, 1) :
                         determineActive(attributes', targets[handlers[i][1].toggles[j]], V)
                         = determineActive(attributes, targets[handlers[i][1].toggles[j]], V)]_vars

\* A raw directive split at its first '=' only.
FirstSplit(raw) ==
    LET k == IndexFrom(raw, "=", 1)
    IN  IF k = 0 THEN [attribute |-> raw, value |-> s_empty]
        ELSE [attribute |-> SubSeq(raw, 1, k - 1), value |-> SubSeq(raw, k + 1, Len(raw))]

\* C11: parseToggleAttribute splits the raw directive at the first '=' only:
\* without '=' the whole text is the name and there is no value, and with
\* several '=' the name is the text before the first and the value is all
\* the text after it ("data-x=1=2" gives "data-x" and "1=2").
C11_FirstEqualSplits ==
    (last.op = "parseToggleAttribute" /\ Is(targets[1], last.arg.s))
    => last.ret = FirstSplit(targets[1].attrs[last.arg.s])

\* The element of the page declares the text under the marker of the role
\* and nothing under the marker of the other role.
DeclaresOnly(role, other, text) ==
    /\ Is(targets[1], last.names[role])
    /\ targets[1].attrs[last.names[role]] = text
    /\ ~Is(targets[1], last.names[other])

\* C12: a value marker holding ["1","2"] is read as a JSON array only when
\* the marker's name has the data- prefix: under a name without it the
\* target resolves by whether some input value is that very text, under a
\* data- name by whether some input value is "1" or "2".
C12_ArraysUnderDataNamesOnly ==
    last.op = "determineActive"
    => LET V == last.values
           literal == \E k \in DOMAIN V : V[k] = Str(s_arr12)
           element == \E k \in DOMAIN V : V[k] \in {Str(s_1), Str(s_2)}
           match(role) == IF StartsWith(last.names[role], DataPrefix) THEN element ELSE literal
       IN  /\ DeclaresOnly("activeValue", "inactiveValue", s_arr12)
                => last.ret = Bool(match("activeValue"))
           /\ DeclaresOnly("inactiveValue", "activeValue", s_arr12)
                => last.ret = Bool(~match("inactiveValue"))

\* C12 witness: under the marker name "av" the target with av='["1","2"]'
\* is inactive for the input values "1", "2" and active once an input
\* holds the text ["1","2"] itself.
C12_Witness ==
    /\ last.op = "determineActive"
    /\ last.names.activeValue = s_av
    /\ DeclaresOnly("activeValue", "inactiveValue", s_arr12)
    /\ last.values = <<Str(s_1), Str(s_arr12)>>
    /\ last.ret = Bool(TRUE)
    /\ determineActive(last.names, targets[1], <<Str(s_1), Str(s_2)>>) = Bool(FALSE)

\* C13: when determineActive yields neither true nor false for a target,
\* update leaves the classes and the attributes of that target as they were.
C13_IndeterminateIsNoOp ==
    (last.op = "update" /\ AppliedActive = Undefined)
    => targets[1] = last.before[1].el

\* The attribute names at which two elements differ.
ChangedAttributes(a, b) ==
    {n \in (DOMAIN a.attrs) \cup (DOMAIN b.attrs) :
        \/ (n \in DOMAIN a.attrs) # (n \in DOMAIN b.attrs)
        \/ (n \in DOMAIN a.attrs /\ n \in DOMAIN b.attrs /\ a.attrs[n] # b.attrs[n])}

\* The attribute names the two attribute directives of an element name; a
\* directive that is absent or empty names none.
DirectiveNames(names, el) ==
    {FirstSplit(AttrOrEmpty(el, names[role])).attribute :
        role \in {"activeAttribute", "inactiveAttribute"}} \ {s_empty}

\* C14: update changes of its target only the membership of the class names
\* its class directives list and only the attributes its attribute
\* directives name; a directive that is not configured causes no change;
\* the inputs and the elements not handed to update stay as they were.
C14_Frame ==
    last.op = "update"
    => LET b == last.before[1].el
           a == targets[1]
       IN  /\ ((a.classes \ b.classes) \cup (b.classes \ a.classes))
                 \subseteq (ActiveClasses(last.names, b) \cup InactiveClasses(last.names, b))
           /\ ChangedAttributes(a, b) \subseteq DirectiveNames(last.names, b)
           /\ a.in = b.in
           /\ targets[2] = Bystander
           /\ inputs = PlainInputs

\* C14 witness: an update that changed a class and an attribute of its
\* target, which still carries its other class and its title.
C14_Witness ==
    /\ last.op = "update"
    /\ targets[1].classes # last.before[1].el.classes
    /\ ChangedAttributes(targets[1], last.before[1].el) # {}
    /\ s_x \in targets[1].classes
    /\ s_title \in DOMAIN targets[1].attrs

\* The last two applications of update were with isActive = true and then
\* with isActive = false, on a target with an active-class directive.
ActiveThenInactive ==
    /\ last.op = "update"
    /\ Len(last.before) >= 2
    /\ last.before[2].isActive = Bool(TRUE)
    /\ last.before[1].isActive = Bool(FALSE)
    /\ NonEmptyMarker(targets[1], last.names.activeClass)

\* C15 as stated: update with isActive = true and then with isActive =
\* false leaves the target with exactly the classes and attributes it had
\* before the first application.
C15_RoundTripRestores ==
    ActiveThenInactive => targets[1] = last.before[2].el

\* C15 as amended: update with isActive = true and then with isActive =
\* false leaves the target with the classes it had before the first
\* application less its active class names plus its inactive class names,
\* and with every attribute its attribute directives do not name unchanged.
C15_RoundTripGivesInactive ==
    ActiveThenInactive
    => LET s == last.before[2].el
           r == targets[1]
       IN  /\ r.classes = (s.classes \ ActiveClasses(last.names, s))
                             \cup InactiveClasses(last.names, s)
           /\ ChangedAttributes(r, s) \subseteq DirectiveNames(last.names, s)

\* C15 witness: the target carried the active class "on" before it was
\* made active and then inactive, and no longer carries it.
C15_Witness ==
    /\ ActiveThenInactive
    /\ s_on \in ActiveClasses(last.names, targets[1])
    /\ s_on \in last.before[2].el.classes
    /\ s_on \notin targets[1].classes
    /\ s_x \in targets[1].classes

\* The last two applications of update were with the same isActive, true
\* or false.
AppliedTwice ==
    /\ last.op = "update"
    /\ Len(last.before) >= 2
    /\ last.before[1].isActive \in {Bool(TRUE), Bool(FALSE)}
    /\ last.before[2].isActive = last.before[1].isActive

\* C16: applying update twice in succession with the same isActive leaves
\* the target with the classes and attributes the first application gave.
C16_Idempotent ==
    AppliedTwice => targets[1] = last.before[1].el

\* C16 witness: the first of two applications with isActive = true changed
\* a class and an attribute of the target, and the second changed nothing.
C16_Witness ==
    /\ AppliedTwice
    /\ last.before[1].isActive = Bool(TRUE)
    /\ last.before[1].el.classes # last.before[2].el.classes
    /\ ChangedAttributes(last.before[1].el, last.before[2].el) # {}
    /\ targets[1] = last.before[1].el

\* Some input inside the scope carries the name.
HasInput(inps, scope, name) ==
    \E i \in DOMAIN inps : Inside(inps[i], scope) /\ inps[i].name = name

\* C17: an init call binds no handler for a group whose name no input
\* inside the scope carries and leaves the targets of that group as they
\* were; the other groups of the call are bound, on every input of their
\* name inside the scope, and evaluated.
C17_EmptyGroup ==
    [][last'.op = "init"
       => \A k \in DOMAIN last'.groups :
             LET g == last'.groups[k]
                 h == [toggles |-> g.ts, name |-> g.name, scope |-> last'.scope]
             IN  IF HasInput(inputs, last'.scope, g.name)
                 THEN /\ \A i \in DOMAIN inputs :
                            (Inside(inputs[i], last'.scope) /\ inputs[i].name = g.name)
                            => handlers'[i] = <<h>>
                      /\ \E j \in DOMAIN last'.runs :
                            /\ last'.runs[j].name = g.name
                            /\ last'.runs[j].toggles = g.ts
                            /\ Len(last'.runs[j].evals) = Len(g.ts)
                 ELSE /\ \A i \in DOMAIN inputs : \A j \in DOMAIN handlers'[i] :
                            handlers'[i][j] # h
                      /\ \A j \in DOMAIN g.ts : targets'[g.ts[j]] = targets[g.ts[j]]
                      /\ \A j \in DOMAIN last'.runs : last'.runs[j].name # g.name]_vars

\* C17 witness: init on the document found a group named "x", which no
\* input carries, and a group named "n": the target of the first still
\* carries the class its evaluation would have removed, and the second is
\* bound and evaluated.
C17_Witness ==
    /\ last.op = "init"
    /\ last.scope = "doc"
    /\ Len(last.groups) = 2
    /\ last.groups[1].name = s_x
    /\ last.groups[1].ts = <<1>>
    /\ s_on \in targets[1].classes
    /\ Len(last.runs) = 1
    /\ last.runs[1].name = s_n
    /\ Len(handlers[3]) = 1

\* C18: in the initial pass and in one change event, each evaluated group
\* has its values collected once, from the inputs of its name inside its
\* scope; its targets are resolved against those values and mutated one
\* after the other in the order init registered them, which is document
\* order; a change event runs the handler of the changed input's group and
\* no other group's evaluation.
C18_RegistrationOrder ==
    last.op \in {"init", "change"}
    => /\ \A k \in DOMAIN last.runs :
             LET r == last.runs[k]
             IN  /\ [j \in DOMAIN r.evals |-> r.evals[j].t] = r.toggles
                 /\ \A a, b \in DOMAIN r.toggles : a < b => r.toggles[a] < r.toggles[b]
                 /\ r.values = getInputValues(inputs, r.name, r.scope, jq)
                 /\ \A j \in DOMAIN r.evals :
                       r.evals[j].isActive
                       = determineActive(last.names, targets[r.evals[j].t], r.values)
       /\ last.op = "change"
          => /\ Len(last.runs) <= 1
             /\ \A k \in DOMAIN last.runs : last.runs[k].name = inputs[last.input].name
       /\ last.op = "init"
          => \A a, b \in DOMAIN last.runs : a # b => last.runs[a].name # last.runs[b].name

\* C18 witness: a change event whose handler evaluated the first target
\* and then the second against the same values, with different results.
C18_Witness ==
    /\ last.op = "change"
    /\ Len(last.runs) = 1
    /\ last.runs[1].toggles = <<1, 2>>
    /\ last.runs[1].evals[1].t = 1
    /\ last.runs[1].evals[2].t = 2
    /\ last.runs[1].evals[1].isActive = Bool(TRUE)
    /\ last.runs[1].evals[2].isActive = Bool(FALSE)

\* A raw directive that is a name followed by one '=' and no value.
ExplicitEmpty(raw) ==
    /\ Len(raw) > 1
    /\ IndexFrom(raw, "=", 1) = Len(raw)

\* C19: a directive "name=" is kept distinct from the directive "name":
\* parseToggleAttribute gives different results for the two, and update
\* with isActive = true on a target whose active attribute is "name=" sets
\* that attribute to the empty string.
C19_ExplicitEmptyValue ==
    (/\ last.op = "update"
     /\ AppliedActive = Bool(TRUE)
     /\ ExplicitEmpty(Directive("activeAttribute")))
    => LET marker == last.names.activeAttribute
           raw == Directive("activeAttribute")
           name == SubSeq(raw, 1, Len(raw) - 1)
       IN  /\ parseToggleAttribute(targets[1], marker)
                 # parseToggleAttribute(SetAttr(targets[1], marker, name), marker)
           /\ Is(targets[1], name)
           /\ targets[1].attrs[name] = s_empty

\* C20: a binding outlives a later init call on a nested or overlapping
\* scope: after init(S1) and then init(S2) under the same marker names,
\* every input that init(S1) bound still has a handler that re-evaluates
\* each target init(S1) registered for it, against the values inside S1.
C20_BindingsSurvive ==
    [][(/\ last.op = "init"
        /\ last'.op = "init"
        /\ attributes' = attributes)
       => \A i \in DOMAIN inputs : \A j \in DOMAIN handlers[i] :
             handlers[i][j].scope = last.scope
             => \A k \in DOMAIN handlers[i][j].toggles :
                   \E m \in DOMAIN handlers'[i] :
                      /\ handlers'[i][m].scope = last.scope
                      /\ \E n \in DOMAIN handlers'[i][m].toggles :
                            handlers'[i][m].toggles[n] = handlers[i][j].toggles[k]]_vars

====
